---- MODULE Spec2Model ----
(***************************************************************************)
(* Model of the routing facade of adonis-framework (src/Route/Manager.js)  *)
(* together with the collaborators it drives: the route store and its      *)
(* breakpoint marker, Route.resolve, RouteGroup and RouteResource.         *)
(*                                                                         *)
(* A path spec, a literal url, a domain pattern and a host are sequences   *)
(* of segments.  A Route object is identified by its index in the store.   *)
(* Group callbacks are arbitrary user code: the model lets a callback      *)
(* that is executing take any of the public calls, return, throw, or       *)
(* catch an error raised by a call it made.                                *)
(***************************************************************************)
EXTENDS Integers, Sequences, FiniteSets, TLC

VARIABLES routes, bp, stack, err, groups, ret, calls,
          handlers, reporters, bindings

vars == <<routes, bp, stack, err, groups, ret, calls, handlers, reporters, bindings>>

\* The state of the routing facade and the state of the exception table.
router == <<routes, bp, stack, err, groups, calls>>
exc == <<handlers, reporters, bindings>>

(***************************************************************************)
(* Bounds of the model.                                                    *)
(***************************************************************************)
MaxRouteCalls == 2
MaxGroupCalls == 3
MaxResourceCalls == 1
MaxConfigCalls == 1
MaxCalls == 4
MaxBindings == 3

(***************************************************************************)
(* Values.                                                                 *)
(***************************************************************************)
Null == "null"
NoDomain == << >>
NoHost == << >>
NoParams == << >>

Static(v) == [k |-> "static", v |-> v]
Param(v) == [k |-> "param", v |-> v]
Optional(v) == [k |-> "optional", v |-> v]
Wildcard == [k |-> "wildcard", v |-> "0"]

\* Lower-casing of the literal segments the model uses.
Lower(s) ==
  CASE s = "Users" -> "users"
    [] s = "USERS" -> "users"
    [] OTHER -> s

\* Parameter data given to url(): a number or a string.
Num(n) == [t |-> "number", n |-> n]
Str(s) == [t |-> "string", s |-> s]

\* String form of a parameter value substituted into a generated path.
ToStr(x) ==
  IF x.t = "string" THEN x.s
  ELSE CASE x.n = 5 -> "5"
         [] x.n = 42 -> "42"
         [] OTHER -> "NaN"

(***************************************************************************)
(* PatternCompiler: the matcher and the reverse generator of a pattern.    *)
(***************************************************************************)
NoMatch == [matched |-> FALSE]
Matched(p) == [matched |-> TRUE, params |-> p]

RECURSIVE Matcher(_, _)
Matcher(pat, lit) ==
  IF pat = << >> THEN (IF lit = << >> THEN Matched(NoParams) ELSE NoMatch)
  ELSE
    LET seg == Head(pat) IN
    CASE seg.k = "wildcard" -> Matched(seg.v :> lit)
      [] seg.k = "optional" ->
           IF lit = << >> THEN Matched(NoParams)
           ELSE IF Len(lit) = 1 /\ Len(pat) = 1 THEN Matched(seg.v :> lit[1])
           ELSE NoMatch
      [] seg.k = "param" ->
           IF lit = << >> THEN NoMatch
           ELSE LET rest == Matcher(Tail(pat), Tail(lit)) IN
                IF rest.matched THEN Matched((seg.v :> lit[1]) @@ rest.params)
                ELSE NoMatch
      [] OTHER ->
           IF lit = << >> \/ Lower(lit[1]) # Lower(seg.v) THEN NoMatch
           ELSE Matcher(Tail(pat), Tail(lit))

Missing == [ok |-> FALSE]
Generated(lit) == [ok |-> TRUE, path |-> lit]

RECURSIVE Generator(_, _)
Generator(pat, data) ==
  IF pat = << >> THEN Generated(<< >>)
  ELSE
    LET seg == Head(pat)
        rest == Generator(Tail(pat), data)
    IN
    IF ~rest.ok THEN Missing
    ELSE CASE seg.k = "static" -> Generated(<<seg.v>> \o rest.path)
           [] seg.k = "optional" ->
                IF seg.v \in DOMAIN data
                THEN Generated(<<ToStr(data[seg.v])>> \o rest.path)
                ELSE Generated(rest.path)
           [] OTHER ->
                IF seg.v \in DOMAIN data
                THEN Generated(<<ToStr(data[seg.v])>> \o rest.path)
                ELSE Missing

(***************************************************************************)
(* Route: one registration.  A name and a handler descriptor are dotted    *)
(* strings, kept as the sequence of their parts (posts.show is             *)
(* <<"posts", "show">>); a route without a name has the empty sequence.    *)
(***************************************************************************)
NoName == << >>

Route(path, handler, verbs) ==
  [path |-> path, verbs |-> verbs, handler |-> handler, name |-> NoName,
   domain |-> NoDomain, middleware |-> << >>]

NoResolve == [ok |-> FALSE]

resolve(route, url, verb, host) ==
  IF verb \notin route.verbs THEN NoResolve
  ELSE
    LET hostM == IF route.domain = NoDomain THEN Matched(NoParams)
                 ELSE Matcher(route.domain, host)
        pathM == Matcher(route.path, url)
    IN
    IF ~hostM.matched THEN NoResolve
    ELSE IF ~pathM.matched THEN NoResolve
    ELSE [ok |-> TRUE, params |-> pathM.params, subdomains |-> hostM.params]

RoutePrefix(route, prefix) == [route EXCEPT !.path = prefix \o route.path]
RouteDomain(route, domain) == [route EXCEPT !.domain = domain]
RouteMiddleware(route, list) == [route EXCEPT !.middleware = route.middleware \o list]
RouteAs(route, name) == [route EXCEPT !.name = name]

(***************************************************************************)
(* RouteStore: the ordered registry and its single breakpoint marker.      *)
(***************************************************************************)
StoreAdd(rs, route) == Append(rs, route)

StoreBreakpoint(b, name, len) == [active |-> TRUE, name |-> name, startIndex |-> len]

StoreHasBreakpoint(b) == b.active

StoreReleaseBreakpoint(b) == [b EXCEPT !.active = FALSE]

\* Indices (1-based) of the routes appended since the recorded startIndex.
StoreBreakpointRoutes(b, rs) == (b.startIndex + 1) .. Len(rs)

First(S) == IF S = {} THEN 0 ELSE CHOOSE i \in S : \A j \in S : i <= j

\* Index of the route found, 0 when there is none.
StoreFind(rs, key, domain) ==
  LET byName == {i \in DOMAIN rs : rs[i].name = key}
      byHandler == {i \in DOMAIN rs : rs[i].handler = key}
      byHandlerDomain ==
        {i \in byHandler :
           /\ domain # NoHost
           /\ rs[i].domain # NoDomain
           /\ Matcher(rs[i].domain, domain).matched}
  IN
  IF byName # {} THEN First(byName)
  ELSE IF byHandlerDomain # {} THEN First(byHandlerDomain)
  ELSE First(byHandler)

(***************************************************************************)
(* RouteResource: the 7 conventional routes of one resource.               *)
(***************************************************************************)
ResourceRows ==
  << [action |-> "index",   verbs |-> {"GET"},          tail |-> << >>],
     [action |-> "create",  verbs |-> {"GET"},          tail |-> <<Static("create")>>],
     [action |-> "store",   verbs |-> {"POST"},         tail |-> << >>],
     [action |-> "show",    verbs |-> {"GET"},          tail |-> <<Param("id")>>],
     [action |-> "edit",    verbs |-> {"GET"},          tail |-> <<Param("id"), Static("edit")>>],
     [action |-> "update",  verbs |-> {"PUT", "PATCH"}, tail |-> <<Param("id")>>],
     [action |-> "destroy", verbs |-> {"DELETE"},       tail |-> <<Param("id")>>] >>

RouteResource(resource, controller, groupName) ==
  LET prefix == IF groupName # Null THEN <<groupName, resource>> ELSE <<resource>>
  IN
  [i \in DOMAIN ResourceRows |->
     RouteAs(Route(<<Static(resource)>> \o ResourceRows[i].tail,
                   <<controller, ResourceRows[i].action>>,
                   ResourceRows[i].verbs),
             prefix \o <<ResourceRows[i].action>>)]

(***************************************************************************)
(* RouteGroup: a configuration call forwards to every route of the slice.  *)
(***************************************************************************)
GroupPrefixed(rs, slice, prefix) ==
  [i \in DOMAIN rs |-> IF i \in slice THEN RoutePrefix(rs[i], prefix) ELSE rs[i]]

GroupDomained(rs, slice, domain) ==
  [i \in DOMAIN rs |-> IF i \in slice THEN RouteDomain(rs[i], domain) ELSE rs[i]]

(***************************************************************************)
(* RouteManager: the pure part of match, url and resource.                 *)
(***************************************************************************)
NullResult == [isNull |-> TRUE]

\* _.find over RouteStore.list(): the scan stops at the first route whose
\* resolve() is truthy; resolvedValues holds the value of the last call.
RECURSIVE Scan(_, _, _, _, _)
Scan(rs, i, url, verb, host) ==
  IF i > Len(rs) THEN [found |-> 0, resolvedValues |-> NoResolve]
  ELSE LET resolvedValues == resolve(rs[i], url, verb, host) IN
       IF resolvedValues.ok THEN [found |-> i, resolvedValues |-> resolvedValues]
       ELSE Scan(rs, i + 1, url, verb, host)

\* Variants of match with a plausible slip: the last matching route
\* instead of the first; a scan that runs over every route, so that only
\* the last route's resolve() decides; a predicate that is always truthy;
\* a scan that resolves on path and verb alone, the domain left unchecked.
matchLast(url, verb, host) ==
  LET R == {i \in DOMAIN routes : resolve(routes[i], url, verb, host).ok} IN
  IF R = {} THEN NullResult
  ELSE LET i == CHOOSE i \in R : \A j \in R : j <= i
           resolvedValues == resolve(routes[i], url, verb, host)
       IN [isNull |-> FALSE, route |-> i, params |-> resolvedValues.params,
           subdomains |-> resolvedValues.subdomains]

matchScanAll(url, verb, host) ==
  LET scan == Scan(routes, 1, url, verb, host) IN
  IF scan.found = 0 \/ ~resolve(routes[Len(routes)], url, verb, host).ok
  THEN NullResult
  ELSE [isNull |-> FALSE, route |-> scan.found,
        params |-> scan.resolvedValues.params,
        subdomains |-> scan.resolvedValues.subdomains]

matchAlwaysTruthy(url, verb, host) ==
  IF routes = << >> THEN NullResult
  ELSE [isNull |-> FALSE, route |-> 1, params |-> NoParams, subdomains |-> NoParams]

matchNoHost(url, verb, host) ==
  LET R == {i \in DOMAIN routes :
              resolve([routes[i] EXCEPT !.domain = NoDomain], url, verb, host).ok}
  IN
  IF R = {} THEN NullResult
  ELSE LET resolvedValues == resolve([routes[First(R)] EXCEPT !.domain = NoDomain],
                                     url, verb, host)
       IN [isNull |-> FALSE, route |-> First(R), params |-> resolvedValues.params,
           subdomains |-> resolvedValues.subdomains]

match(url, verb, host) ==
  LET scan == Scan(routes, 1, url, verb, host) IN
  IF scan.found = 0 THEN NullResult
  ELSE [isNull |-> FALSE, route |-> scan.found,
        params |-> scan.resolvedValues.params,
        subdomains |-> scan.resolvedValues.subdomains]

\* Variant of url that swallows the generator's error and returns null.
urlNullOnMissing(routeNameOrHandler, data, domain) ==
  LET route == StoreFind(routes, routeNameOrHandler, domain) IN
  IF route = 0 THEN [kind |-> "null"]
  ELSE LET made == Generator(routes[route].path, data) IN
       IF made.ok THEN [kind |-> "path", path |-> made.path]
       ELSE [kind |-> "null"]

\* Variant of url that returns the path spec with the parameter names in
\* the place of their values.
urlUnsubstituted(routeNameOrHandler, data, domain) ==
  LET route == StoreFind(routes, routeNameOrHandler, domain) IN
  IF route = 0 THEN [kind |-> "null"]
  ELSE LET made == Generator(routes[route].path, data) IN
       IF made.ok
       THEN [kind |-> "path",
             path |-> [i \in DOMAIN routes[route].path |-> routes[route].path[i].v]]
       ELSE [kind |-> "throw", error |-> "E_MISSING_PARAMETER"]

url(routeNameOrHandler, data, domain) ==
  LET route == StoreFind(routes, routeNameOrHandler, domain) IN
  IF route = 0 THEN [kind |-> "null"]
  ELSE LET made == Generator(routes[route].path, data) IN
       IF made.ok THEN [kind |-> "path", path |-> made.path]
       ELSE [kind |-> "throw", error |-> "E_MISSING_PARAMETER"]

\* The group name resource() hands to RouteResource: RouteStore._breakpoint.name
ResourceGroupName == bp.name

(***************************************************************************)
(* Inputs the calls are drawn from.                                        *)
(***************************************************************************)
RouteArgs ==
  { [path |-> <<Static("users")>>, handler |-> <<"h">>, verbs |-> {"GET"}],
    [path |-> <<Param("slug")>>,   handler |-> <<"h">>, verbs |-> {"GET"}],
    [path |-> <<Static("a")>>,     handler |-> <<"h">>, verbs |-> {"GET", "POST"}] }
GroupNames == {Null, "admin"}
ResourceNames == {"posts"}
Controllers == {"PostController"}
Prefixes == {<<Static("api")>>}
Domains == {<<Static("blog.example.com")>>}

ShorthandPaths == {<<Static("a")>>}
ShorthandHandlers == {<<"h">>}
Templates == {"welcome"}

Urls == {<<"users">>, <<"Users">>, <<"a">>, <<"api", "a">>, <<"posts", "5">>}
Verbs == {"GET", "POST"}
Hosts == {NoHost, <<"blog.example.com">>, <<"example.com">>}

UrlKeys == {<<"posts", "show">>, <<"PostController", "index">>, <<"missing">>}
UrlData == {<< >>, [id |-> Num(5)], [id |-> Str("42")]}
UrlDomains == {NoHost}

(***************************************************************************)
(* State.                                                                  *)
(*   routes  RouteStore._routes                                            *)
(*   bp      RouteStore._breakpoint                                        *)
(*   stack   the group() calls whose callback is executing, innermost      *)
(*           last; begin is the store length when group() was called and   *)
(*           added the number of routes registered since                   *)
(*   err     the error in flight, "none" when there is none                *)
(*   groups  the RouteGroup objects returned so far                        *)
(*   ret     what the last call did or returned                            *)
(*   calls   how many calls of each kind were made (query: match and url)  *)
(*   handlers, reporters                                                   *)
(*           Exception._handlers and Exception._reporters: the own         *)
(*           properties of the two objects, name -> callback               *)
(*   bindings                                                              *)
(*           the handle/report calls made since the last clear(), in       *)
(*           order                                                         *)
(***************************************************************************)
Init ==
  /\ routes = << >>
  /\ bp = [active |-> FALSE, name |-> Null, startIndex |-> 0]
  /\ stack = << >>
  /\ err = "none"
  /\ groups = << >>
  /\ ret = [kind |-> "none"]
  /\ calls = [route |-> 0, group |-> 0, resource |-> 0, config |-> 0, query |-> 0]
  /\ handlers = << >>
  /\ reporters = << >>
  /\ bindings = << >>

Top == stack[Len(stack)]
Pop == SubSeq(stack, 1, Len(stack) - 1)
Count(kind) == [calls EXCEPT ![kind] = calls[kind] + 1]
Total == calls.route + calls.group + calls.resource + calls.config + calls.query
Budget(kind, max) == calls[kind] < max /\ Total < MaxCalls

\* Every executing callback has seen n more registrations.
Registered(n) == [i \in DOMAIN stack |-> [stack[i] EXCEPT !.added = stack[i].added + n]]

\* Variant of route that puts the new route first.
routeFirst(path, handler, verbs) == <<Route(path, handler, verbs)>> \o routes

\* route(route, handler, verbs): the store after the call.
route(path, handler, verbs) == StoreAdd(routes, Route(path, handler, verbs))

RouteCall(path, handler, verbs) ==
  /\ err = "none"
  /\ UNCHANGED exc
  /\ Budget("route", MaxRouteCalls)
  /\ routes' = route(path, handler, verbs)
  /\ stack' = Registered(1)
  /\ ret' = [kind |-> "route", route |-> Len(routes) + 1]
  /\ calls' = Count("route")
  /\ UNCHANGED <<bp, err, groups>>

\* Variant of get that leaves HEAD out.
getWithoutHead(path, handler) == route(path, handler, {"GET"})

\* The verb shorthands: the store after the call.
get(path, handler) == route(path, handler, {"HEAD", "GET"})
post(path, handler) == route(path, handler, {"POST"})
put(path, handler) == route(path, handler, {"PUT"})
patch(path, handler) == route(path, handler, {"PATCH"})
delete(path, handler) == route(path, handler, {"DELETE"})
any(path, handler) == route(path, handler, {"HEAD", "GET", "POST", "PUT", "PATCH", "DELETE"})

\* on(route).render(template): the handler is the closure that renders the
\* template with the view of the request context.
render(path, template) == route(path, <<"view.render", template>>, {"HEAD", "GET"})

\* A registration call that appended one route to the store.
Appended(method, store) ==
  /\ err = "none"
  /\ UNCHANGED exc
  /\ Budget("route", MaxRouteCalls)
  /\ routes' = store
  /\ stack' = Registered(1)
  /\ ret' = [kind |-> method, route |-> Len(routes) + 1, len |-> Len(routes)]
  /\ calls' = Count("route")
  /\ UNCHANGED <<bp, err, groups>>

GetCall(path, handler) == Appended("get", get(path, handler))
PostCall(path, handler) == Appended("post", post(path, handler))
PutCall(path, handler) == Appended("put", put(path, handler))
PatchCall(path, handler) == Appended("patch", patch(path, handler))
DeleteCall(path, handler) == Appended("delete", delete(path, handler))
AnyCall(path, handler) == Appended("any", any(path, handler))

\* on(route) returns the object holding render and registers nothing.
OnCall(path) ==
  /\ err = "none"
  /\ ret' = [kind |-> "on", path |-> path, len |-> Len(routes)]
  /\ UNCHANGED <<router, exc>>

\* render(template), chained on the object on(route) returned.
RenderCall(template) ==
  /\ ret.kind = "on"
  /\ Appended("render", render(ret.path, template))

\* _validateGroupClosure: the error it throws, "none" when it returns.
\* Variant of _validateGroupClosure that accepts any callback.
validateGroupClosureAccepts(callable) == "none"

validateGroupClosure(callable) ==
  IF ~callable THEN "E_INVALID_PARAMETER" ELSE "none"

\* Variant of _validateNestedGroups that throws with the breakpoint as it
\* found it.
validateNestedGroupsKeepsBreakpoint ==
  IF StoreHasBreakpoint(bp)
  THEN [bp |-> bp, error |-> "E_NESTED_ROUTE_GROUPS"]
  ELSE [bp |-> bp, error |-> "none"]

\* _validateNestedGroups: the breakpoint it leaves and the error it throws.
validateNestedGroups ==
  IF StoreHasBreakpoint(bp)
  THEN [bp |-> StoreReleaseBreakpoint(bp), error |-> "E_NESTED_ROUTE_GROUPS"]
  ELSE [bp |-> bp, error |-> "none"]

\* group(name, callback) up to the point where it invokes the callback.
\* group(callback) is the call with name Null.
GroupCall(name, callable) ==
  /\ err = "none"
  /\ UNCHANGED exc
  /\ callable => Budget("group", MaxGroupCalls)
  /\ ret' = [kind |-> "groupCall", callable |-> callable,
             active |-> StoreHasBreakpoint(bp), inside |-> stack # << >>]
  /\ UNCHANGED <<routes, groups>>
  /\ IF validateGroupClosure(callable) # "none"
     THEN /\ err' = validateGroupClosure(callable)
          /\ UNCHANGED <<bp, stack, calls>>
     ELSE IF validateNestedGroups.error # "none"
     THEN /\ err' = validateNestedGroups.error
          /\ bp' = validateNestedGroups.bp
          /\ calls' = Count("group")
          /\ UNCHANGED stack
     ELSE /\ bp' = StoreBreakpoint(bp, name, Len(routes))
          /\ stack' = Append(stack, [name |-> name, begin |-> Len(routes), added |-> 0])
          /\ calls' = Count("group")
          /\ UNCHANGED err

\* Variant of GroupReturn that returns the group with the breakpoint
\* still active.
GroupReturnKeepsBreakpoint ==
  /\ err = "none"
  /\ UNCHANGED exc
  /\ stack # << >>
  /\ groups' = Append(groups, [routes |-> StoreBreakpointRoutes(bp, routes),
                               begin |-> Top.begin, added |-> Top.added])
  /\ stack' = Pop
  /\ ret' = [kind |-> "group", group |-> Len(groups) + 1]
  /\ UNCHANGED <<routes, bp, err, calls>>

\* The callback returned: group() builds the RouteGroup, releases the
\* breakpoint and returns the group.
GroupReturn ==
  /\ err = "none"
  /\ UNCHANGED exc
  /\ stack # << >>
  /\ groups' = Append(groups, [routes |-> StoreBreakpointRoutes(bp, routes),
                               begin |-> Top.begin, added |-> Top.added])
  /\ bp' = StoreReleaseBreakpoint(bp)
  /\ stack' = Pop
  /\ ret' = [kind |-> "group", group |-> Len(groups) + 1]
  /\ UNCHANGED <<routes, err, calls>>

\* The callback threw an error of its own: group() is left by the error.
GroupThrow ==
  /\ err = "none"
  /\ UNCHANGED exc
  /\ stack # << >>
  /\ err' = "E_CALLBACK"
  /\ stack' = Pop
  /\ ret' = [kind |-> "groupFailed", error |-> "E_CALLBACK",
             begin |-> Top.begin, added |-> Top.added]
  /\ UNCHANGED <<routes, bp, groups, calls>>

\* Variant of Unwind in which the failing group() takes back the routes
\* its callback registered.
UnwindRollback ==
  /\ err # "none"
  /\ UNCHANGED exc
  /\ stack # << >>
  /\ stack' = Pop
  /\ routes' = SubSeq(routes, 1, Top.begin)
  /\ ret' = [kind |-> "groupFailed", error |-> err,
             begin |-> Top.begin, added |-> Top.added]
  /\ UNCHANGED <<bp, err, groups, calls>>

\* The callback did not catch the error of a call it made: group() is
\* left by that error.
Unwind ==
  /\ err # "none"
  /\ UNCHANGED exc
  /\ stack # << >>
  /\ stack' = Pop
  /\ ret' = [kind |-> "groupFailed", error |-> err,
             begin |-> Top.begin, added |-> Top.added]
  /\ UNCHANGED <<routes, bp, err, groups, calls>>

\* The caller (the executing callback, or the top-level script) caught
\* the error.
Catch ==
  /\ err # "none"
  /\ UNCHANGED exc
  /\ err' = "none"
  /\ ret' = [kind |-> "caught", error |-> err]
  /\ UNCHANGED <<routes, bp, stack, groups, calls>>

\* resource(resource, controller): the routes the call creates.
resource(name, controller) == RouteResource(name, controller, ResourceGroupName)

ResourceCall(name, controller) ==
  /\ err = "none"
  /\ UNCHANGED exc
  /\ Budget("resource", MaxResourceCalls)
  /\ routes' = routes \o resource(name, controller)
  /\ stack' = Registered(Len(resource(name, controller)))
  /\ ret' = [kind |-> "resource", resource |-> name, controller |-> controller,
             begin |-> Len(routes)]
  /\ calls' = Count("resource")
  /\ UNCHANGED <<bp, err, groups>>

GroupPrefix(g, prefix) ==
  /\ err = "none"
  /\ UNCHANGED exc
  /\ Budget("config", MaxConfigCalls)
  /\ routes' = GroupPrefixed(routes, groups[g].routes, prefix)
  /\ ret' = [kind |-> "prefix", group |-> g, arg |-> prefix, before |-> routes]
  /\ calls' = Count("config")
  /\ UNCHANGED <<bp, stack, err, groups>>

GroupDomain(g, domain) ==
  /\ err = "none"
  /\ UNCHANGED exc
  /\ Budget("config", MaxConfigCalls)
  /\ routes' = GroupDomained(routes, groups[g].routes, domain)
  /\ ret' = [kind |-> "domain", group |-> g, arg |-> domain, before |-> routes]
  /\ calls' = Count("config")
  /\ UNCHANGED <<bp, stack, err, groups>>

\* Variant of Match that merges the resolved values into the matching route
\* itself instead of a copy of it.
MatchMergesIntoRoute(u, verb, host) ==
  /\ err = "none"
  /\ UNCHANGED exc
  /\ stack = << >>
  /\ Total < MaxCalls
  /\ ret' = [kind |-> "match", url |-> u, verb |-> verb, host |-> host,
             result |-> match(u, verb, host)]
  /\ routes' = IF match(u, verb, host).isNull THEN routes
               ELSE [routes EXCEPT ![match(u, verb, host).route] =
                       [f \in DOMAIN @ \cup {"params"} |->
                          IF f = "params" THEN match(u, verb, host).params ELSE @[f]]]
  /\ calls' = Count("query")
  /\ UNCHANGED <<bp, stack, err, groups>>

\* Resolution is a request-time call: it is made from the top level, once
\* the registration calls have returned.
Match(u, verb, host) ==
  /\ err = "none"
  /\ UNCHANGED exc
  /\ stack = << >>
  /\ Total < MaxCalls
  /\ ret' = [kind |-> "match", url |-> u, verb |-> verb, host |-> host,
             result |-> match(u, verb, host)]
  /\ calls' = Count("query")
  /\ UNCHANGED <<routes, bp, stack, err, groups>>

Url(key, data, domain) ==
  /\ err = "none"
  /\ UNCHANGED exc
  /\ stack = << >>
  /\ Total < MaxCalls
  /\ ret' = [kind |-> "url", key |-> key, data |-> data, domain |-> domain,
             result |-> url(key, data, domain)]
  /\ err' = IF url(key, data, domain).kind = "throw"
            THEN url(key, data, domain).error ELSE "none"
  /\ calls' = Count("query")
  /\ UNCHANGED <<routes, bp, stack, groups>>

\* list() returns RouteStore.list().
list == routes

List ==
  /\ err = "none"
  /\ UNCHANGED exc
  /\ stack = << >>
  /\ Total < MaxCalls
  /\ ret' = [kind |-> "list", result |-> list]
  /\ calls' = Count("query")
  /\ UNCHANGED <<routes, bp, stack, err, groups>>

Next ==
  \/ \E a \in RouteArgs : RouteCall(a.path, a.handler, a.verbs)
  \/ \E n \in GroupNames, c \in BOOLEAN : GroupCall(n, c)
  \/ GroupReturn
  \/ GroupThrow
  \/ Unwind
  \/ Catch
  \/ \E n \in ResourceNames, c \in Controllers : ResourceCall(n, c)
  \/ \E g \in DOMAIN groups, p \in Prefixes : GroupPrefix(g, p)
  \/ \E g \in DOMAIN groups, d \in Domains : GroupDomain(g, d)
  \/ \E u \in Urls, v \in Verbs, h \in Hosts : Match(u, v, h)
  \/ \E k \in UrlKeys, d \in UrlData, h \in UrlDomains : Url(k, d, h)
  \/ List

Spec == Init /\ [][Next]_vars

\* Registration with the verb shorthands, at the top level and inside group
\* callbacks.
NextShorthand ==
  \/ \E p \in ShorthandPaths, h \in ShorthandHandlers : GetCall(p, h)
  \/ \E p \in ShorthandPaths, h \in ShorthandHandlers : PostCall(p, h)
  \/ \E p \in ShorthandPaths, h \in ShorthandHandlers : PutCall(p, h)
  \/ \E p \in ShorthandPaths, h \in ShorthandHandlers : PatchCall(p, h)
  \/ \E p \in ShorthandPaths, h \in ShorthandHandlers : DeleteCall(p, h)
  \/ \E p \in ShorthandPaths, h \in ShorthandHandlers : AnyCall(p, h)
  \/ \E p \in ShorthandPaths : OnCall(p)
  \/ \E t \in Templates : RenderCall(t)
  \/ \E a \in RouteArgs : RouteCall(a.path, a.handler, a.verbs)
  \/ \E n \in GroupNames, c \in BOOLEAN : GroupCall(n, c)
  \/ GroupReturn
  \/ GroupThrow
  \/ Unwind
  \/ Catch
  \/ List

SpecShorthand == Init /\ [][NextShorthand]_vars

\* Registration with route, verb shorthands, group and resource.
NextRegistration ==
  \/ \E a \in RouteArgs : RouteCall(a.path, a.handler, a.verbs)
  \/ \E p \in ShorthandPaths, h \in ShorthandHandlers : GetCall(p, h)
  \/ \E p \in ShorthandPaths, h \in ShorthandHandlers : PostCall(p, h)
  \/ \E n \in GroupNames, c \in BOOLEAN : GroupCall(n, c)
  \/ GroupReturn
  \/ GroupThrow
  \/ Unwind
  \/ Catch
  \/ \E n \in ResourceNames, c \in Controllers : ResourceCall(n, c)
  \/ List

SpecRegistration == Init /\ [][NextRegistration]_vars

(***************************************************************************)
(* Exception: the table of handlers and reporters.  _handlers and          *)
(* _reporters are plain objects ({}): a lookup by name finds an own        *)
(* property first and a property inherited from Object.prototype next.     *)
(***************************************************************************)
Undefined == "undefined"
WildcardName == "*"
ExceptionNames == {"UserNotFoundException", WildcardName, "toString"}
Callbacks == {"cb1", "cb2"}

\* Object.prototype, as far as the names of the model reach it.
ObjectPrototype == [toString |-> "Object.prototype.toString"]

\* object[name]
Property(object, name) ==
  IF name \in DOMAIN object THEN object[name]
  ELSE IF name \in DOMAIN ObjectPrototype THEN ObjectPrototype[name]
  ELSE Undefined

\* a || b, for values of which only undefined is falsy
Or(a, b) == IF a # Undefined THEN a ELSE b

\* object[name] = value
Assign(object, name, value) ==
  [n \in DOMAIN object \cup {name} |-> IF n = name THEN value ELSE object[n]]

getHandler(name) == Or(Property(handlers, name), Property(handlers, WildcardName))

getReporter(name) == Or(Property(reporters, name), Property(reporters, WildcardName))

Bound(kind, name, callback) == [kind |-> kind, name |-> name, callback |-> callback]

Clear ==
  /\ handlers' = << >>
  /\ reporters' = << >>
  /\ bindings' = << >>
  /\ ret' = [kind |-> "clear"]
  /\ UNCHANGED router

Handle(name, callback) ==
  /\ Len(bindings) < MaxBindings
  /\ handlers' = Assign(handlers, name, callback)
  /\ bindings' = Append(bindings, Bound("handle", name, callback))
  /\ ret' = [kind |-> "handle", name |-> name]
  /\ UNCHANGED <<router, reporters>>

Report(name, callback) ==
  /\ Len(bindings) < MaxBindings
  /\ reporters' = Assign(reporters, name, callback)
  /\ bindings' = Append(bindings, Bound("report", name, callback))
  /\ ret' = [kind |-> "report", name |-> name]
  /\ UNCHANGED <<router, handlers>>

\* bind(name, binding): the resolved binding instance has a handle method,
\* a report method, both or none (Undefined where it has none).
Bind(name, handle, report) ==
  /\ Len(bindings) + 1 < MaxBindings
  /\ handlers' = IF handle # Undefined THEN Assign(handlers, name, handle) ELSE handlers
  /\ reporters' = IF report # Undefined THEN Assign(reporters, name, report) ELSE reporters
  /\ bindings' = bindings
                  \o (IF handle # Undefined THEN <<Bound("handle", name, handle)>> ELSE << >>)
                  \o (IF report # Undefined THEN <<Bound("report", name, report)>> ELSE << >>)
  /\ ret' = [kind |-> "bind", name |-> name]
  /\ UNCHANGED router

GetHandler(name) ==
  /\ ret' = [kind |-> "getHandler", name |-> name, result |-> getHandler(name)]
  /\ UNCHANGED <<router, exc>>

GetReporter(name) ==
  /\ ret' = [kind |-> "getReporter", name |-> name, result |-> getReporter(name)]
  /\ UNCHANGED <<router, exc>>

NextException ==
  \/ Clear
  \/ \E n \in ExceptionNames, c \in Callbacks : Handle(n, c)
  \/ \E n \in ExceptionNames, c \in Callbacks : Report(n, c)
  \/ \E n \in ExceptionNames, h, r \in Callbacks \cup {Undefined} : Bind(n, h, r)
  \/ \E n \in ExceptionNames : GetHandler(n)
  \/ \E n \in ExceptionNames : GetReporter(n)

SpecException == Init /\ [][NextException]_vars

(***************************************************************************)
(* Properties.                                                             *)
(***************************************************************************)
\* The routes of the store that resolve the request of the last match call.
Resolving == {i \in DOMAIN routes : resolve(routes[i], ret.url, ret.verb, ret.host).ok}

Least(S) == CHOOSE i \in S : \A j \in S : i <= j

\* C1: first match wins. When some route resolves (url, verb, host), match
\* returns the lowest-index route of the store that resolves it, with the
\* parameters that route extracted; of two resolving routes the one
\* registered later is never returned.
C1_FirstMatchWins ==
  (ret.kind = "match" /\ Resolving # {}) =>
    /\ ~ret.result.isNull
    /\ ret.result.route = Least(Resolving)
    /\ ret.result.params =
         resolve(routes[Least(Resolving)], ret.url, ret.verb, ret.host).params
    /\ \A r1, r2 \in Resolving : r1 < r2 => ret.result.route # r2

\* Two routes resolve the same request and the earlier one was returned.
C1_Witness ==
  /\ ret.kind = "match"
  /\ Cardinality(Resolving) >= 2
  /\ ret.result.route = Least(Resolving)

\* C8: match returns null, and raises no error, exactly when no route of the
\* store resolves the request; otherwise the result is not null and its route
\* is a route of the store.
C8_NullIffNoRouteResolves ==
  ret.kind = "match" =>
    /\ err = "none"
    /\ ret.result.isNull <=> (Resolving = {})
    /\ ~ret.result.isNull => ret.result.route \in DOMAIN routes

\* A match that found nothing in a store where some route resolves another
\* request, and a match that found a route.
C8_Witness ==
  /\ ret.kind = "match"
  /\ ret.result.isNull
  /\ routes # << >>
  /\ \E u \in Urls, v \in Verbs, h \in Hosts :
       \E i \in DOMAIN routes : resolve(routes[i], u, v, h).ok

\* The static route users with verbs [GET] and no domain.
IsUsersGet(r) == r.path = <<Static("users")>> /\ r.verbs = {"GET"} /\ r.domain = NoDomain

\* C9: match never returns a route whose verb set lacks the requested verb.
\* Where the static route users [GET] is the first route that can resolve
\* (users, GET, any host) it is returned with empty params, and
\* (users, POST, any host) yields null when no other route matches.
C9_VerbInVerbSet ==
  ret.kind = "match" =>
    /\ ~ret.result.isNull => ret.verb \in routes[ret.result.route].verbs
    /\ \A i \in DOMAIN routes :
         (IsUsersGet(routes[i]) /\ ret.url = <<"users">>) =>
           /\ (ret.verb = "GET" /\ Resolving \cap (1 .. (i - 1)) = {}) =>
                /\ ~ret.result.isNull
                /\ ret.result.route = i
                /\ ret.result.params = NoParams
           /\ (ret.verb = "POST" /\ Resolving \ {i} = {}) => ret.result.isNull

\* users [GET] is in the store, nothing else matches, and the POST request
\* for users came back null.
C9_Witness ==
  /\ ret.kind = "match"
  /\ ret.url = <<"users">>
  /\ ret.verb = "POST"
  /\ \E i \in DOMAIN routes : IsUsersGet(routes[i])
  /\ ret.result.isNull

IsBlogSlug(r) ==
  r.path = <<Param("slug")>> /\ r.domain = <<Static("blog.example.com")>>

\* C10: a route with a domain constraint is returned by match only when the
\* host matches that domain; a route with no domain is returned whatever the
\* host. With domain blog.example.com and path :slug, a request from another
\* host yields null although the path matches, unless another route resolves
\* it.
C10_DomainConstraint ==
  ret.kind = "match" =>
    /\ ~ret.result.isNull =>
         LET r == routes[ret.result.route] IN
         /\ r.domain # NoDomain => Matcher(r.domain, ret.host).matched
         /\ r.domain = NoDomain =>
              \A h \in Hosts \cup {NoHost} : resolve(r, ret.url, ret.verb, h).ok
    /\ ( /\ \A i \in DOMAIN routes : IsBlogSlug(routes[i])
         /\ ret.host # <<"blog.example.com">> ) => ret.result.isNull

\* The route :slug of domain blog.example.com is in the store, the path of
\* the request matches it, the host is another one, and match returned null.
C10_Witness ==
  /\ ret.kind = "match"
  /\ \E i \in DOMAIN routes :
       /\ IsBlogSlug(routes[i])
       /\ ret.verb \in routes[i].verbs
       /\ Matcher(routes[i].path, ret.url).matched
  /\ ret.host = <<"example.com">>
  /\ ret.result.isNull

\* The routes registered while the callback of a group was executing.
Window(g) == (g.begin + 1) .. (g.begin + g.added)

\* C2 as stated: after group(outerCb) failed because outerCb called group()
\* again, the store holds none of the routes outerCb registered.
C2_NoPartialRoutes ==
  (ret.kind = "groupFailed" /\ ret.error = "E_NESTED_ROUTE_GROUPS") =>
    Len(routes) = ret.begin

\* C2 amended: a group() call made while a breakpoint is active fails with
\* E_NESTED_ROUTE_GROUPS, and after group(outerCb) failed with that error the
\* routes outerCb registered before the nested call are all still in the
\* store: nothing is rolled back.
C2_PartialRoutesStay ==
  /\ (ret.kind = "groupCall" /\ ret.callable /\ ret.active) =>
       err = "E_NESTED_ROUTE_GROUPS"
  /\ (ret.kind = "groupFailed" /\ ret.error = "E_NESTED_ROUTE_GROUPS") =>
       /\ Len(routes) = ret.begin + ret.added
       /\ \A i \in (ret.begin + 1) .. (ret.begin + ret.added) : i \in DOMAIN routes

\* group(outerCb) failed with the nested-group error after outerCb had
\* registered a route.
C2_Witness ==
  /\ ret.kind = "groupFailed"
  /\ ret.error = "E_NESTED_ROUTE_GROUPS"
  /\ ret.added >= 1
  /\ Len(routes) = ret.begin + ret.added

\* C3: breakpoints never nest. A group() call made while the callback of
\* another group is executing is rejected with the nested-group error and
\* opens no second capture window: at most one group callback is executing
\* at any time.
C3_BreakpointsNeverNest ==
  /\ (ret.kind = "groupCall" /\ ret.callable /\ ret.inside) =>
       err = "E_NESTED_ROUTE_GROUPS"
  /\ Len(stack) <= 1

\* C4: every Group returned by group(cb) holds exactly the routes registered
\* while cb was executing, and prefix(p) on it puts p before the path of
\* each of them (a then matches api/a and no longer a) and changes no other
\* route.
C4_GroupHoldsItsRoutes ==
  /\ \A k \in DOMAIN groups : groups[k].routes = Window(groups[k])
  /\ ret.kind = "prefix" =>
       \A i \in DOMAIN routes :
         IF i \in Window(groups[ret.group])
         THEN /\ routes[i].path = ret.arg \o ret.before[i].path
              /\ ret.before[i].path = <<Static("a")>> =>
                   /\ Matcher(routes[i].path, <<"api", "a">>).matched
                   /\ ~Matcher(routes[i].path, <<"a">>).matched
         ELSE routes[i] = ret.before[i]

\* The names of the routes the last resource() call created.
ResourceNamesAre(prefix) ==
  /\ Len(routes) >= ret.begin + Len(ResourceRows)
  /\ \A i \in DOMAIN ResourceRows :
       routes[ret.begin + i].name = prefix \o <<ResourceRows[i].action>>

\* C5: resource(name, controller) names its routes after the active
\* breakpoint. Inside the callback of group(g, cb) the names are
\* g.name.<action>; while no breakpoint is active they are name.<action>.
C5_ResourceNamedAfterActiveGroup ==
  ret.kind = "resource" =>
    /\ (stack # << >> /\ bp.active /\ Top.name # Null) =>
         ResourceNamesAre(<<Top.name, ret.resource>>)
    /\ ~bp.active => ResourceNamesAre(<<ret.resource>>)

\* C6: resource(name, controller) appends exactly 7 routes, one per row of
\* the table, with handler controller.<action> and, outside a named group,
\* name name.<action>; every route a resource() call registered inside a
\* group callback is in the slice that group captured.
C6_ResourceRegistersSevenRoutes ==
  /\ ret.kind = "resource" =>
       /\ Len(ResourceRows) = 7
       /\ Len(routes) = ret.begin + 7
       /\ \A i \in DOMAIN ResourceRows :
            LET r == routes[ret.begin + i] IN
            /\ r.verbs = ResourceRows[i].verbs
            /\ r.path = <<Static(ret.resource)>> \o ResourceRows[i].tail
            /\ r.handler = <<ret.controller, ResourceRows[i].action>>
            /\ (stack = << >> \/ Top.name = Null) =>
                 r.name = <<ret.resource, ResourceRows[i].action>>
  /\ \A k \in DOMAIN groups : \A i \in Window(groups[k]) :
       routes[i].handler[1] \in Controllers => i \in groups[k].routes

\* The parameters a path spec requires.
Required(path) == {path[i].v : i \in {j \in DOMAIN path : path[j].k \in {"param", "wildcard"}}}

\* The literal path of a spec of static and required segments under data.
Literal(path, data) ==
  [i \in DOMAIN path |-> IF path[i].k = "static" THEN path[i].v ELSE ToStr(data[path[i].v])]

\* C7: url returns null when the store finds no route; when a route is found
\* it returns the literal path made from the route's path spec and the data
\* (posts.show with id 5 gives posts/5), and fails with the missing-parameter
\* error when the data lacks a required parameter.
C7_UrlNullPathOrMissing ==
  ret.kind = "url" =>
    LET found == StoreFind(routes, ret.key, ret.domain) IN
    /\ found = 0 => (ret.result.kind = "null" /\ err = "none")
    /\ found # 0 =>
         IF Required(routes[found].path) \subseteq DOMAIN ret.data
         THEN /\ ret.result.kind = "path"
              /\ err = "none"
              /\ ret.result.path = Literal(routes[found].path, ret.data)
              /\ ( /\ ret.key = <<"posts", "show">>
                   /\ routes[found].path = <<Static("posts"), Param("id")>>
                   /\ ret.data = [id |-> Num(5)] ) => ret.result.path = <<"posts", "5">>
         ELSE /\ ret.result.kind = "throw"
              /\ err = "E_MISSING_PARAMETER"

\* url found posts.show and failed for lack of id.
C7_Witness ==
  /\ ret.kind = "url"
  /\ ret.key = <<"posts", "show">>
  /\ StoreFind(routes, ret.key, ret.domain) # 0
  /\ ret.data = << >>
  /\ err = "E_MISSING_PARAMETER"

(***************************************************************************)
(* Verb shorthands.                                                        *)
(***************************************************************************)
ShorthandVerbs ==
  [get |-> {"HEAD", "GET"}, render |-> {"HEAD", "GET"}, post |-> {"POST"},
   put |-> {"PUT"}, patch |-> {"PATCH"}, delete |-> {"DELETE"},
   any |-> {"HEAD", "GET", "POST", "PUT", "PATCH", "DELETE"}]

\* C11: each verb shorthand, and on(path).render(template), appends exactly
\* one route at the end of the store, and that route's verb set is exactly
\* the shorthand's: HEAD and GET for get and render, the one verb for post,
\* put, patch and delete, all six for any.  on(path) alone registers nothing.
C11_ShorthandAppendsOneRoute ==
  /\ ret.kind \in DOMAIN ShorthandVerbs =>
       /\ Len(routes) = ret.len + 1
       /\ ret.route = Len(routes)
       /\ routes[ret.route].verbs = ShorthandVerbs[ret.kind]
  /\ ret.kind = "on" => Len(routes) = ret.len

\* get registered a second route, behind an earlier one.
C11_Witness ==
  /\ ret.kind = "get"
  /\ Len(routes) = 2
  /\ routes[2].verbs = {"HEAD", "GET"}
  /\ routes[2].path = <<Static("a")>>

(***************************************************************************)
(* Failing group() calls.                                                  *)
(***************************************************************************)
\* C12: group() with a callback that is not callable fails at once with the
\* invalid-parameter (configuration) error and leaves the store as it was:
\* no route added, no breakpoint opened, no callback entered, and a
\* breakpoint that was active still active.
C12_InvalidCallbackChangesNothing ==
  [][ (err = "none" /\ ret'.kind = "groupCall" /\ ~ret'.callable) =>
        /\ err' = "E_INVALID_PARAMETER"
        /\ routes' = routes
        /\ bp' = bp
        /\ stack' = stack
        /\ groups' = groups ]_vars

\* group() was called with an invalid callback inside a group callback that
\* had registered a route: the breakpoint is still active.
C12_Witness ==
  /\ ret.kind = "groupCall"
  /\ ~ret.callable
  /\ ret.active
  /\ err = "E_INVALID_PARAMETER"
  /\ bp.active
  /\ stack # << >>
  /\ Top.added >= 1

(***************************************************************************)
(* Group configuration and the breakpoint.                                 *)
(***************************************************************************)
\* C13 as stated: every change a Group configuration call makes to a route
\* happens in a state where the breakpoint of the store is active.
C13_ConfigOnlyWhileBreakpointActive ==
  (ret.kind \in {"prefix", "domain"} /\ routes # ret.before) => bp.active

\* C13 amended: group() releases the breakpoint before it returns the
\* Group, so the Group exists only once its capture window is closed; a
\* configuration call on it changes the routes of the slice it captured and
\* no other, whether a breakpoint is active at that time or not.
C13_ConfigAfterBreakpointReleased ==
  /\ ret.kind = "group" => ~bp.active
  /\ ret.kind \in {"prefix", "domain"} =>
       /\ Len(routes) = Len(ret.before)
       /\ \A i \in DOMAIN routes :
            i \notin groups[ret.group].routes => routes[i] = ret.before[i]

\* prefix changed a route of its group while no breakpoint was active.
C13_Witness ==
  /\ ret.kind = "prefix"
  /\ ~bp.active
  /\ stack = << >>
  /\ \E i \in groups[ret.group].routes : routes[i].path # ret.before[i].path

(***************************************************************************)
(* The exception table.                                                    *)
(***************************************************************************)
\* The callback of the latest handle (kind "handle") or report (kind
\* "report") call that bound name, Undefined when there was none.
Latest(kind, name) ==
  LET S == {i \in DOMAIN bindings : bindings[i].kind = kind /\ bindings[i].name = name} IN
  IF S = {} THEN Undefined
  ELSE bindings[CHOOSE i \in S : \A j \in S : j <= i].callback

MostRecentlyBound(kind, name) ==
  IF Latest(kind, name) # Undefined THEN Latest(kind, name)
  ELSE Latest(kind, WildcardName)

\* The names Object.prototype gives no property to.
PlainNames == ExceptionNames \ DOMAIN ObjectPrototype

\* C14: getHandler(name) returns the callback most recently bound with
\* handle(name, cb); if none was bound for name, the callback most recently
\* bound for '*'; if neither exists, undefined.  getReporter does the same
\* over the report bindings.
C14_LookupMostRecentBinding ==
  /\ ret.kind = "getHandler" => ret.result = MostRecentlyBound("handle", ret.name)
  /\ ret.kind = "getReporter" => ret.result = MostRecentlyBound("report", ret.name)

\* For the names Object.prototype gives no property to, the lookups do
\* return the most recent binding.
LookupOfPlainNames ==
  (ret.kind \in {"getHandler", "getReporter"} /\ ret.name \in PlainNames) =>
    C14_LookupMostRecentBinding

\* C20: handlers and reporters are independent maps.  handle(name, cb)
\* changes no getReporter result and report(name, cb) no getHandler result;
\* a binding for a name changes the lookup of that name only, and a binding
\* for '*' the lookups of the names with no binding of their own only;
\* after clear() getHandler and getReporter return undefined for every name.
C20_IndependentMapsAndClear ==
  [][ /\ ret'.kind = "handle" =>
           \A n \in ExceptionNames :
             /\ getReporter(n)' = getReporter(n)
             /\ (n # ret'.name /\ (ret'.name # WildcardName \/ n \in DOMAIN handlers)) =>
                  getHandler(n)' = getHandler(n)
      /\ ret'.kind = "report" =>
           \A n \in ExceptionNames :
             /\ getHandler(n)' = getHandler(n)
             /\ (n # ret'.name /\ (ret'.name # WildcardName \/ n \in DOMAIN reporters)) =>
                  getReporter(n)' = getReporter(n)
      /\ ret'.kind = "clear" =>
           \A n \in ExceptionNames :
             getHandler(n)' = Undefined /\ getReporter(n)' = Undefined ]_vars

(***************************************************************************)
(* Resolution and the store.                                               *)
(***************************************************************************)
\* C15: resolution is read-only.  A match, url or list call, whatever its
\* arguments and its result (null and the missing-parameter error
\* included), leaves the route sequence, every field of every route and the
\* breakpoint marker as they were.
C15_ResolutionIsReadOnly ==
  [][ ret'.kind \in {"match", "url", "list"} =>
        /\ routes' = routes
        /\ bp' = bp
        /\ groups' = groups ]_vars

\* url failed for lack of a parameter in a store whose breakpoint a failed
\* group() had left active.
C15_Witness ==
  /\ ret.kind = "url"
  /\ err = "E_MISSING_PARAMETER"
  /\ routes # << >>
  /\ bp.active

\* C16: the store is append-only and order-preserving.  No route, shorthand,
\* group or resource call, failed group() calls included, removes or
\* reorders a route: a call that registers routes puts them behind the
\* routes already there and leaves those untouched, every other step keeps
\* the sequence, and the routes a group callback registered sit at the
\* positions where it registered them.
C16_AppendOnlyInOrder ==
  [][ /\ Len(routes') >= Len(routes)
      /\ \A i \in DOMAIN routes : routes'[i] = routes[i]
      /\ \A k \in DOMAIN stack' :
           stack'[k].begin + stack'[k].added <= Len(routes')
      /\ \A k \in DOMAIN groups' : Window(groups'[k]) \subseteq DOMAIN routes'
      /\ (ret'.kind \in {"groupFailed", "caught", "group", "groupCall", "list"}) =>
           routes' = routes ]_vars

\* A route registered before a group, the seven routes of a resource
\* registered by the group's callback, and a route registered after the
\* group returned, each at its position.
C16_Witness ==
  /\ ret.kind \in {"route", "get", "post"}
  /\ Len(groups) >= 1
  /\ groups[1].begin = 1
  /\ groups[1].added = 7
  /\ Len(routes) = 9
  /\ routes[2].handler = <<"PostController", "index">>

(***************************************************************************)
(* The breakpoint at the end of group().                                   *)
(***************************************************************************)
\* C17: a breakpoint is active only while a group callback is executing.
\* Once a group() call has ended, by returning a Group or by any error (the
\* callback's own exception included), no breakpoint is active, and so a
\* group() call made from the top level is never rejected as nested.
C17_BreakpointOnlyDuringCallback ==
  /\ bp.active => stack # << >>
  /\ (ret.kind = "groupCall" /\ ret.callable /\ ~ret.inside) =>
       err # "E_NESTED_ROUTE_GROUPS"

\* C18: when group() is rejected as nested, the active breakpoint is
\* released before the error is raised: right after the error is thrown the
\* store has no active breakpoint, and the routes the outer callback
\* registered so far are still in the store.
C18_NestedRejectionReleasesBreakpoint ==
  [][ (err = "none" /\ err' = "E_NESTED_ROUTE_GROUPS") =>
        /\ ret'.kind = "groupCall"
        /\ bp.active
        /\ ~bp'.active
        /\ routes' = routes
        /\ stack' = stack ]_vars

\* A nested group() was rejected inside a callback that had registered a
\* route: the route is in the store and no breakpoint is active.
C18_Witness ==
  /\ ret.kind = "groupCall"
  /\ err = "E_NESTED_ROUTE_GROUPS"
  /\ ~bp.active
  /\ stack # << >>
  /\ Top.added >= 1
  /\ Len(routes) = Top.begin + Top.added

(***************************************************************************)
(* Reverse generation against matching.                                    *)
(***************************************************************************)
\* The last url call found a route by its name, the path spec of the route
\* has static and required named segments only, and a path came back.
UrlOfNamedRoute ==
  /\ ret.kind = "url"
  /\ ret.result.kind = "path"
  /\ StoreFind(routes, ret.key, ret.domain) # 0
  /\ LET r == routes[StoreFind(routes, ret.key, ret.domain)] IN
     /\ r.name = ret.key
     /\ \A i \in DOMAIN r.path : r.path[i].k \in {"static", "param"}

\* The hosts a route accepts.
HostsOf(r) == {h \in Hosts : r.domain = NoDomain \/ Matcher(r.domain, h).matched}

====
